---- MODULE Spec2Model ----
(***************************************************************************)
(* Cycle-level model of the 6800 core (core.py).  One step of the model is *)
(* one edge of the ph1 clock.  The combinational signals of a cycle are    *)
(* state functions of the registers and of Din; the clocked assignments of *)
(* a cycle are staged in program order, the last assignment to a signal    *)
(* winning, and committed together at the edge.                            *)
(***************************************************************************)
EXTENDS Integers, Sequences, FiniteSets, TLC

VARIABLES
    Addr, Din, Dout, RW, VMA,          \* bus
    a, b, x, sp, pc, instr, tmp8, tmp16, \* registers
    reset_state, cycle,                \* internal state
    ccs,                               \* condition codes held by the ALU
    formalData,                        \* what the formal hook has collected
    ninstr                             \* opcodes fetched since reset

vars == <<Addr, Din, Dout, RW, VMA, a, b, x, sp, pc, instr, tmp8, tmp16,
          reset_state, cycle, ccs, formalData, ninstr>>

-----------------------------------------------------------------------------
(* Bounds of the model *)

\* opcodes fetched after a reset, under Spec
MaxInstr == 2

\* opcodes fetched after a reset, under SpecAll
MaxInstrAll == 1

\* bytes the memory puts on Din in cycles that are not an opcode fetch
DataBytes == {0, 255}

\* the reset vectors the memory holds: the bytes at 0xFFFE and at 0xFFFF
VectorHi == {255}
VectorLo == {0, 255}

\* opcodes the memory supplies under Spec, where instructions follow one
\* another
Opcodes ==
    { 1, 8,       \* NOP INX
      39,         \* BEQ
      109, 127,   \* TST ,X   CLR ext
      126,        \* JMP ext
      150,        \* LDAA dir
      231,        \* STAB ,X
      135 }       \* unassigned

\* every opcode, under SpecAll
AllOpcodes == 0..255

\* contents of the registers that a reset leaves alone, and of the flags
InitRegs ==
    { [a |-> 0, b |-> 85, x |-> 2, sp |-> 511, instr |-> 151,
       tmp8 |-> 170, tmp16 |-> 4660, ccs |-> {}],
      [a |-> 128, b |-> 85, x |-> 65535, sp |-> 511, instr |-> 8,
       tmp8 |-> 170, tmp16 |-> 4660, ccs |-> {"Z", "C"}] }

\* what the ALU may answer where the model leaves its arithmetic open
FlagVecs == { {"Z", "C"}, {"N", "V"} }
AluResults == {165}

-----------------------------------------------------------------------------
(* Bit vectors *)

Bit(v, i) == (v \div (2 ^ i)) % 2

Lo8(v) == v % 256

Hi8(v) == (v \div 256) % 256

\* Cat(lo, hi): lo in bits 0..7, hi in bits 8..15
Cat(lo, hi) == hi * 256 + lo

\* assignment of a sum to a 16-bit signal
Plus16(v, w) == (v + w + 65536) % 65536


\* the offset byte taken as an unsigned number
Signed8_unsigned(v) == v

\* an 8-bit value read as signed(8)
Signed8(v) == IF v >= 128 THEN v - 256 ELSE v

\* the bits of an 8-bit value, most significant first
BitString(op) == [i \in 1..8 |-> IF Bit(op, 8 - i) = 1 THEN "1" ELSE "0"]

\* Value.matches / Case of a pattern, written most significant bit first
Matches(bits, p) == \A i \in 1..8 : p[i] = "-" \/ p[i] = bits[i]

-----------------------------------------------------------------------------
(* Staged assignments: a function from signal names to values.  Stage of a *)
(* sequence of them is their effect in program order: the last assignment  *)
(* to a signal wins.                                                       *)

Nop == [k \in {} |-> 0]

RECURSIVE StageUpTo(_, _)
StageUpTo(ss, n) ==
    IF n = 0 THEN Nop ELSE ss[n] @@ StageUpTo(ss, n - 1)

Stage(ss) == StageUpTo(ss, Len(ss))

When(c, s) == IF c THEN s ELSE Nop

Get(s, k, old) == IF k \in DOMAIN s THEN s[k] ELSE old

-----------------------------------------------------------------------------
(* consts.ModeBits: the addressing mode field, instr[4:6] *)

IMMEDIATE == 0
DIRECT == 1
INDEXED == 2
EXTENDED == 3
MODE_A == 0
MODE_B == 1

mode == (instr \div 16) % 4

-----------------------------------------------------------------------------
(* The ALU (alu8.ALU8): the results it can produce for a function, its two *)
(* inputs and the condition codes it holds.  Arithmetic is left open: any  *)
(* result and any flags.                                                   *)

SetFlag(f, n, on) == IF on THEN f \cup {n} ELSE f \ {n}

ALU8(func, in1, in2, f) ==
    CASE func = "NONE" -> { [out |-> 0, ccs |-> f] }
      [] func = "LD"   -> { [out |-> in2,
                             ccs |-> SetFlag(SetFlag(SetFlag(f, "Z", in2 = 0),
                                             "N", Bit(in2, 7) = 1), "V", FALSE)] }
      [] func = "CLC"  -> { [out |-> 0, ccs |-> SetFlag(f, "C", FALSE)] }
      [] func = "SEC"  -> { [out |-> 0, ccs |-> SetFlag(f, "C", TRUE)] }
      [] func = "CLV"  -> { [out |-> 0, ccs |-> SetFlag(f, "V", FALSE)] }
      [] func = "SEV"  -> { [out |-> 0, ccs |-> SetFlag(f, "V", TRUE)] }
      [] func = "CLI"  -> { [out |-> 0, ccs |-> SetFlag(f, "I", FALSE)] }
      [] func = "SEI"  -> { [out |-> 0, ccs |-> SetFlag(f, "I", TRUE)] }
      [] func = "CLZ"  -> { [out |-> 0, ccs |-> SetFlag(f, "Z", FALSE)] }
      [] func = "SEZ"  -> { [out |-> 0, ccs |-> SetFlag(f, "Z", TRUE)] }
      [] OTHER         -> { [out |-> o, ccs |-> g] : o \in AluResults, g \in FlagVecs }

-----------------------------------------------------------------------------
(* Core *)

end_instr(addr) ==
    Stage(<< "end_instr_addr" :> addr, "end_instr_flag" :> TRUE >>)

defaults ==
    Stage(<< "end_instr_flag" :> FALSE, "end_instr_addr" :> 0,
             "src8_1" :> 0, "src8_2" :> 0,
             "alu8_func" :> "NONE",
             "VMA" :> 1,
             "cycle" :> (cycle + 1) % 16 >>)


\* reset_handler with the vector bytes in the other order
reset_handler_swapped ==
    CASE reset_state = 0 ->
            Stage(<< "Addr" :> 65534, "RW" :> 1, "reset_state" :> 1 >>)
      [] reset_state = 1 ->
            Stage(<< "Addr" :> 65535, "RW" :> 1, "tmp8" :> Din,
                     "reset_state" :> 2 >>)
      [] reset_state = 2 ->
            Stage(<< "reset_state" :> 3, end_instr(Cat(tmp8, Din)) >>)
      [] OTHER -> Nop

\* reset_handler with a reset_state counter that wraps
reset_handler_wraps ==
    CASE reset_state = 0 ->
            Stage(<< "Addr" :> 65534, "RW" :> 1, "reset_state" :> 1 >>)
      [] reset_state = 1 ->
            Stage(<< "Addr" :> 65535, "RW" :> 1, "tmp8" :> Din,
                     "reset_state" :> 2 >>)
      [] reset_state = 2 ->
            Stage(<< "reset_state" :> 3, end_instr(Cat(Din, tmp8)) >>)
      [] OTHER -> "reset_state" :> 0

reset_handler ==
    CASE reset_state = 0 ->
            Stage(<< "Addr" :> 65534, "RW" :> 1, "reset_state" :> 1 >>)
      [] reset_state = 1 ->
            Stage(<< "Addr" :> 65535, "RW" :> 1, "tmp8" :> Din,
                     "reset_state" :> 2 >>)
      [] reset_state = 2 ->
            Stage(<< "reset_state" :> 3, end_instr(Cat(Din, tmp8)) >>)
      [] OTHER -> Nop



\* end_instr_flag_handler that does not return RW to read
end_instr_flag_handler_no_rw(s) ==
    When(s["end_instr_flag"],
         Stage(<< "pc" :> s["end_instr_addr"], "Addr" :> s["end_instr_addr"],
                  "cycle" :> 0 >>))

\* end_instr_flag_handler that loads pc but leaves the address bus alone
end_instr_flag_handler_no_addr(s) ==
    When(s["end_instr_flag"],
         Stage(<< "pc" :> s["end_instr_addr"], "RW" :> 1, "cycle" :> 0 >>))

end_instr_flag_handler(s) ==
    When(s["end_instr_flag"],
         Stage(<< "pc" :> s["end_instr_addr"], "Addr" :> s["end_instr_addr"],
                  "RW" :> 1, "cycle" :> 0 >>))


\* fetch that latches the opcode one bit short
fetch_latch_narrow ==
    Stage(<< "instr" :> Din % 128, "RW" :> 1,
             "pc" :> Plus16(pc, 1), "Addr" :> Plus16(pc, 1) >>)

fetch ==
    Stage(<< "instr" :> Din, "RW" :> 1,
             "pc" :> Plus16(pc, 1), "Addr" :> Plus16(pc, 1) >>)


\* read_byte that does not report the read
read_byte_unreported(cyc, addr, comb_dest) ==
    Stage(<< When(cycle = cyc, Stage(<< "Addr" :> addr, "RW" :> 1 >>)),
             When(cycle = cyc + 1,
                  IF comb_dest = "NONE" THEN Nop ELSE comb_dest :> Din) >>)

read_byte(cyc, addr, comb_dest) ==
    Stage(<< When(cycle = cyc, Stage(<< "Addr" :> addr, "RW" :> 1 >>)),
             When(cycle = cyc + 1,
                  Stage(<< IF comb_dest = "NONE" THEN Nop ELSE comb_dest :> Din,
                           "read" :> <<Addr, Din>> >>)) >>)

(* Addressing modes: the staged assignments, and the operand returned *)

mode_immediate8_operand == IF cycle = 1 THEN Din ELSE tmp8

mode_immediate8 ==
    When(cycle = 1,
         Stage(<< "tmp8" :> Din,
                  "pc" :> Plus16(pc, 1), "Addr" :> Plus16(pc, 1),
                  "RW" :> 1, "read" :> <<Addr, Din>> >>))

\* the direct-mode operand taken from tmp16 before tmp16 holds it
mode_direct_operand_stale == tmp16

mode_direct_operand == IF cycle = 1 THEN Din ELSE tmp16


mode_direct ==
    When(cycle = 1,
         Stage(<< "tmp16" :> Cat(Din, 0),
                  "pc" :> Plus16(pc, 1), "Addr" :> Plus16(pc, 1),
                  "RW" :> 1, "read" :> <<Addr, Din>> >>))

mode_indexed_operand == tmp16



\* mode_indexed with the second dead cycle left out
mode_indexed_one_dead ==
    Stage(<< When(cycle = 1,
                  Stage(<< "tmp16" :> Cat(Din, 0),
                           "pc" :> Plus16(pc, 1), "Addr" :> Plus16(pc, 1),
                           "RW" :> 1, "VMA" :> 0, "read" :> <<Addr, Din>> >>)),
             When(cycle = 2, "tmp16" :> Plus16(tmp16, x)) >>)

\* mode_indexed that leaves the sum in X as well
mode_indexed_into_x ==
    Stage(<< When(cycle = 1,
                  Stage(<< "tmp16" :> Cat(Din, 0),
                           "pc" :> Plus16(pc, 1), "Addr" :> Plus16(pc, 1),
                           "RW" :> 1, "VMA" :> 0, "read" :> <<Addr, Din>> >>)),
             When(cycle = 2,
                  Stage(<< "tmp16" :> Plus16(tmp16, x),
                           "x" :> Plus16(tmp16, x), "VMA" :> 0 >>)) >>)

mode_indexed ==
    Stage(<< When(cycle = 1,
                  Stage(<< "tmp16" :> Cat(Din, 0),
                           "pc" :> Plus16(pc, 1), "Addr" :> Plus16(pc, 1),
                           "RW" :> 1, "VMA" :> 0, "read" :> <<Addr, Din>> >>)),
             When(cycle = 2,
                  Stage(<< "tmp16" :> Plus16(tmp16, x), "VMA" :> 0 >>)) >>)

mode_ext_operand == IF cycle = 2 THEN Cat(Din, Hi8(tmp16)) ELSE tmp16



\* mode_ext that does not step pc over the second address byte
mode_ext_pc_once ==
    Stage(<< When(cycle = 1,
                  Stage(<< "tmp16" :> Cat(Lo8(tmp16), Din),
                           "pc" :> Plus16(pc, 1), "Addr" :> Plus16(pc, 1),
                           "RW" :> 1, "read" :> <<Addr, Din>> >>)),
             When(cycle = 2,
                  Stage(<< "tmp16" :> Cat(Din, Hi8(tmp16)),
                           "read" :> <<Addr, Din>> >>)) >>)

\* mode_ext that drives the bus for a third operand byte
mode_ext_third_byte ==
    Stage(<< When(cycle = 1,
                  Stage(<< "tmp16" :> Cat(Lo8(tmp16), Din),
                           "pc" :> Plus16(pc, 1), "Addr" :> Plus16(pc, 1),
                           "RW" :> 1, "read" :> <<Addr, Din>> >>)),
             When(cycle = 2,
                  Stage(<< "tmp16" :> Cat(Din, Hi8(tmp16)),
                           "pc" :> Plus16(pc, 1), "Addr" :> Plus16(pc, 1),
                           "RW" :> 1, "read" :> <<Addr, Din>> >>)) >>)

mode_ext ==
    Stage(<< When(cycle = 1,
                  Stage(<< "tmp16" :> Cat(Lo8(tmp16), Din),
                           "pc" :> Plus16(pc, 1), "Addr" :> Plus16(pc, 1),
                           "RW" :> 1, "read" :> <<Addr, Din>> >>)),
             When(cycle = 2,
                  Stage(<< "tmp16" :> Cat(Din, Hi8(tmp16)),
                           "pc" :> Plus16(pc, 1), "read" :> <<Addr, Din>> >>)) >>)

(* Instruction handlers.  alu8 is the output of the ALU in this cycle. *)


\* the accumulator mux stuck at A
acc_always_a(bsel) == a

acc(bsel) == IF bsel = 1 THEN b ELSE a


\* the write-back into the accumulator that was not selected
store_acc_swapped(bsel, alu8) == IF bsel = 1 THEN "a" :> alu8 ELSE "b" :> alu8

store_acc(bsel, alu8) == IF bsel = 1 THEN "b" :> alu8 ELSE "a" :> alu8


\* ALU that completes an immediate operand in the cycle it arrives
ALU_imm_early(alu8, func, store) ==
    LET bsel == Bit(instr, 6)
    IN  IF mode = DIRECT THEN
            Stage(<< mode_direct,
                     read_byte(1, mode_direct_operand, "src8_2"),
                     When(cycle = 2,
                          Stage(<< "src8_1" :> acc(bsel),
                                   "alu8_func" :> func,
                                   When(store, store_acc(bsel, alu8)),
                                   end_instr(pc) >>)) >>)
        ELSE IF mode = EXTENDED THEN
            Stage(<< mode_ext,
                     read_byte(2, mode_ext_operand, "src8_2"),
                     When(cycle = 3,
                          Stage(<< "src8_1" :> acc(bsel),
                                   "alu8_func" :> func,
                                   When(store, store_acc(bsel, alu8)),
                                   end_instr(pc) >>)) >>)
        ELSE IF mode = IMMEDIATE THEN
            Stage(<< mode_immediate8,
                     When(cycle = 1,
                          Stage(<< "src8_1" :> acc(bsel),
                                   "src8_2" :> mode_immediate8_operand,
                                   "alu8_func" :> func,
                                   When(store, store_acc(bsel, alu8)),
                                   end_instr(Plus16(pc, 1)) >>)) >>)
        ELSE IF mode = INDEXED THEN
            Stage(<< mode_indexed,
                     read_byte(3, mode_indexed_operand, "src8_2"),
                     When(cycle = 4,
                          Stage(<< "src8_1" :> acc(bsel),
                                   "alu8_func" :> func,
                                   When(store, store_acc(bsel, alu8)),
                                   end_instr(pc) >>)) >>)
        ELSE Nop

ALU(alu8, func, store) ==
    LET bsel == Bit(instr, 6)
    IN  IF mode = DIRECT THEN
            Stage(<< mode_direct,
                     read_byte(1, mode_direct_operand, "src8_2"),
                     When(cycle = 2,
                          Stage(<< "src8_1" :> acc(bsel),
                                   "alu8_func" :> func,
                                   When(store, store_acc(bsel, alu8)),
                                   end_instr(pc) >>)) >>)
        ELSE IF mode = EXTENDED THEN
            Stage(<< mode_ext,
                     read_byte(2, mode_ext_operand, "src8_2"),
                     When(cycle = 3,
                          Stage(<< "src8_1" :> acc(bsel),
                                   "alu8_func" :> func,
                                   When(store, store_acc(bsel, alu8)),
                                   end_instr(pc) >>)) >>)
        ELSE IF mode = IMMEDIATE THEN
            Stage(<< mode_immediate8,
                     When(cycle = 2,
                          Stage(<< "src8_1" :> acc(bsel),
                                   "src8_2" :> mode_immediate8_operand,
                                   "alu8_func" :> func,
                                   When(store, store_acc(bsel, alu8)),
                                   end_instr(pc) >>)) >>)
        ELSE IF mode = INDEXED THEN
            Stage(<< mode_indexed,
                     read_byte(3, mode_indexed_operand, "src8_2"),
                     When(cycle = 4,
                          Stage(<< "src8_1" :> acc(bsel),
                                   "alu8_func" :> func,
                                   When(store, store_acc(bsel, alu8)),
                                   end_instr(pc) >>)) >>)
        ELSE Nop

\* ALU2 that keeps the operand, not the result
ALU2_keeps_operand(alu8, func, operand1, operand2, store) ==
    IF mode = MODE_A THEN
        Stage(<< "src8_1" :> (IF operand1 = 1 THEN a ELSE 0),
                 "src8_2" :> (IF operand2 = 1 THEN a ELSE 0),
                 "alu8_func" :> func,
                 When(store, "a" :> alu8),
                 end_instr(pc) >>)
    ELSE IF mode = MODE_B THEN
        Stage(<< "src8_1" :> (IF operand1 = 1 THEN b ELSE 0),
                 "src8_2" :> (IF operand2 = 1 THEN b ELSE 0),
                 "alu8_func" :> func,
                 When(store, "b" :> alu8),
                 end_instr(pc) >>)
    ELSE IF mode = EXTENDED THEN
        Stage(<< mode_ext,
                 read_byte(2, mode_ext_operand, "NONE"),
                 IF cycle = 3 THEN
                     Stage(<< "src8_1" :> (IF operand1 = 1 THEN Din ELSE 0),
                              "src8_2" :> (IF operand2 = 1 THEN Din ELSE 0),
                              "alu8_func" :> func,
                              "tmp8" :> Din,
                              "VMA" :> 0,
                              "Addr" :> mode_ext_operand,
                              "RW" :> 1 >>)
                 ELSE IF cycle = 4 THEN
                     Stage(<< "Addr" :> mode_ext_operand,
                              "Dout" :> tmp8,
                              "RW" :> 0,
                              When(~store, "VMA" :> 0) >>)
                 ELSE IF cycle = 5 THEN
                     Stage(<< When(store, "write" :> <<Addr, Dout>>),
                              end_instr(pc) >>)
                 ELSE Nop >>)
    ELSE IF mode = INDEXED THEN
        Stage(<< mode_indexed,
                 read_byte(3, mode_indexed_operand, "NONE"),
                 When(cycle = 4,
                      Stage(<< "src8_1" :> (IF operand1 = 1 THEN Din ELSE 0),
                               "src8_2" :> (IF operand2 = 1 THEN Din ELSE 0),
                               "alu8_func" :> func,
                               "tmp8" :> Din,
                               "VMA" :> 0,
                               "Addr" :> mode_indexed_operand,
                               "RW" :> 1 >>)),
                 When(cycle = 5,
                      Stage(<< "Addr" :> mode_indexed_operand,
                               "Dout" :> tmp8,
                               "RW" :> 0,
                               When(~store, "VMA" :> 0) >>)),
                 When(cycle = 6,
                      Stage(<< When(store, "write" :> <<Addr, Dout>>),
                               end_instr(pc) >>)) >>)
    ELSE Nop

\* ALU2 that leaves VMA alone when it does not store
ALU2_vma_kept(alu8, func, operand1, operand2, store) ==
    IF mode = MODE_A THEN
        Stage(<< "src8_1" :> (IF operand1 = 1 THEN a ELSE 0),
                 "src8_2" :> (IF operand2 = 1 THEN a ELSE 0),
                 "alu8_func" :> func,
                 When(store, "a" :> alu8),
                 end_instr(pc) >>)
    ELSE IF mode = MODE_B THEN
        Stage(<< "src8_1" :> (IF operand1 = 1 THEN b ELSE 0),
                 "src8_2" :> (IF operand2 = 1 THEN b ELSE 0),
                 "alu8_func" :> func,
                 When(store, "b" :> alu8),
                 end_instr(pc) >>)
    ELSE IF mode = EXTENDED THEN
        Stage(<< mode_ext,
                 read_byte(2, mode_ext_operand, "NONE"),
                 IF cycle = 3 THEN
                     Stage(<< "src8_1" :> (IF operand1 = 1 THEN Din ELSE 0),
                              "src8_2" :> (IF operand2 = 1 THEN Din ELSE 0),
                              "alu8_func" :> func,
                              "tmp8" :> alu8,
                              "VMA" :> 0,
                              "Addr" :> mode_ext_operand,
                              "RW" :> 1 >>)
                 ELSE IF cycle = 4 THEN
                     Stage(<< "Addr" :> mode_ext_operand,
                              "Dout" :> tmp8,
                              "RW" :> 0 >>)
                 ELSE IF cycle = 5 THEN
                     Stage(<< When(store, "write" :> <<Addr, Dout>>),
                              end_instr(pc) >>)
                 ELSE Nop >>)
    ELSE IF mode = INDEXED THEN
        Stage(<< mode_indexed,
                 read_byte(3, mode_indexed_operand, "NONE"),
                 When(cycle = 4,
                      Stage(<< "src8_1" :> (IF operand1 = 1 THEN Din ELSE 0),
                               "src8_2" :> (IF operand2 = 1 THEN Din ELSE 0),
                               "alu8_func" :> func,
                               "tmp8" :> alu8,
                               "VMA" :> 0,
                               "Addr" :> mode_indexed_operand,
                               "RW" :> 1 >>)),
                 When(cycle = 5,
                      Stage(<< "Addr" :> mode_indexed_operand,
                               "Dout" :> tmp8,
                               "RW" :> 0 >>)),
                 When(cycle = 6,
                      Stage(<< When(store, "write" :> <<Addr, Dout>>),
                               end_instr(pc) >>)) >>)
    ELSE Nop

ALU2(alu8, func, operand1, operand2, store) ==
    IF mode = MODE_A THEN
        Stage(<< "src8_1" :> (IF operand1 = 1 THEN a ELSE 0),
                 "src8_2" :> (IF operand2 = 1 THEN a ELSE 0),
                 "alu8_func" :> func,
                 When(store, "a" :> alu8),
                 end_instr(pc) >>)
    ELSE IF mode = MODE_B THEN
        Stage(<< "src8_1" :> (IF operand1 = 1 THEN b ELSE 0),
                 "src8_2" :> (IF operand2 = 1 THEN b ELSE 0),
                 "alu8_func" :> func,
                 When(store, "b" :> alu8),
                 end_instr(pc) >>)
    ELSE IF mode = EXTENDED THEN
        Stage(<< mode_ext,
                 read_byte(2, mode_ext_operand, "NONE"),
                 IF cycle = 3 THEN
                     Stage(<< "src8_1" :> (IF operand1 = 1 THEN Din ELSE 0),
                              "src8_2" :> (IF operand2 = 1 THEN Din ELSE 0),
                              "alu8_func" :> func,
                              "tmp8" :> alu8,
                              "VMA" :> 0,
                              "Addr" :> mode_ext_operand,
                              "RW" :> 1 >>)
                 ELSE IF cycle = 4 THEN
                     Stage(<< "Addr" :> mode_ext_operand,
                              "Dout" :> tmp8,
                              "RW" :> 0,
                              When(~store, "VMA" :> 0) >>)
                 ELSE IF cycle = 5 THEN
                     Stage(<< When(store, "write" :> <<Addr, Dout>>),
                              end_instr(pc) >>)
                 ELSE Nop >>)
    ELSE IF mode = INDEXED THEN
        Stage(<< mode_indexed,
                 read_byte(3, mode_indexed_operand, "NONE"),
                 When(cycle = 4,
                      Stage(<< "src8_1" :> (IF operand1 = 1 THEN Din ELSE 0),
                               "src8_2" :> (IF operand2 = 1 THEN Din ELSE 0),
                               "alu8_func" :> func,
                               "tmp8" :> alu8,
                               "VMA" :> 0,
                               "Addr" :> mode_indexed_operand,
                               "RW" :> 1 >>)),
                 When(cycle = 5,
                      Stage(<< "Addr" :> mode_indexed_operand,
                               "Dout" :> tmp8,
                               "RW" :> 0,
                               When(~store, "VMA" :> 0) >>)),
                 When(cycle = 6,
                      Stage(<< When(store, "write" :> <<Addr, Dout>>),
                               end_instr(pc) >>)) >>)
    ELSE Nop


\* branch_check that leaves the invert bit out
branch_check_no_invert ==
    LET sel == (instr \div 2) % 8
        C == "C" \in ccs
        Z == "Z" \in ccs
        V == "V" \in ccs
        N == "N" \in ccs
    IN  CASE sel = 0 -> TRUE
          [] sel = 1 -> ~(C \/ Z)
          [] sel = 2 -> ~C
          [] sel = 3 -> ~Z
          [] sel = 4 -> ~V
          [] sel = 5 -> ~N
          [] sel = 6 -> ~(N # V)
          [] sel = 7 -> ~(Z \/ (N # V))

branch_check ==
    LET invert == Bit(instr, 0)
        sel == (instr \div 2) % 8
        C == "C" \in ccs
        Z == "Z" \in ccs
        V == "V" \in ccs
        N == "N" \in ccs
        cond == CASE sel = 0 -> TRUE
                  [] sel = 1 -> ~(C \/ Z)
                  [] sel = 2 -> ~C
                  [] sel = 3 -> ~Z
                  [] sel = 4 -> ~V
                  [] sel = 5 -> ~N
                  [] sel = 6 -> ~(N # V)
                  [] sel = 7 -> ~(Z \/ (N # V))
    IN  cond # (invert = 1)


\* BR that ends a cycle early when the branch is not taken
BR_early ==
    LET relative == Signed8(mode_immediate8_operand)
    IN  Stage(<< mode_immediate8,
                 When(cycle = 2,
                      Stage(<< "tmp16" :> Plus16(pc, relative),
                               When(~branch_check, end_instr(pc)) >>)),
                 When(cycle = 3,
                      end_instr(IF branch_check THEN tmp16 ELSE pc)) >>)

BR ==
    LET relative == Signed8(mode_immediate8_operand)
    IN  Stage(<< mode_immediate8,
                 When(cycle = 2, "tmp16" :> Plus16(pc, relative)),
                 When(cycle = 3,
                      end_instr(IF branch_check THEN tmp16 ELSE pc)) >>)


\* CL_SE_C with the two functions the other way round
CL_SE_C_swapped ==
    When(cycle = 1,
         Stage(<< "alu8_func" :> (IF Bit(instr, 0) = 1 THEN "CLC" ELSE "SEC"),
                  end_instr(pc) >>))

CL_SE_C ==
    When(cycle = 1,
         Stage(<< "alu8_func" :> (IF Bit(instr, 0) = 1 THEN "SEC" ELSE "CLC"),
                  end_instr(pc) >>))

CL_SE_V ==
    When(cycle = 1,
         Stage(<< "alu8_func" :> (IF Bit(instr, 0) = 1 THEN "SEV" ELSE "CLV"),
                  end_instr(pc) >>))

CL_SE_I ==
    When(cycle = 1,
         Stage(<< "alu8_func" :> (IF Bit(instr, 0) = 1 THEN "SEI" ELSE "CLI"),
                  end_instr(pc) >>))



\* IN_DE_X that selects the Z function in its second dead cycle as well
IN_DE_X_func_twice ==
    LET dec == Bit(instr, 0)
    IN  Stage(<< When(cycle = 1,
                      Stage(<< "VMA" :> 0,
                               "Addr" :> x,
                               "x" :> (IF dec = 1 THEN Plus16(x, -1)
                                       ELSE Plus16(x, 1)) >>)),
                 When(cycle = 2,
                      Stage(<< "VMA" :> 0, "Addr" :> x,
                               "alu8_func" :> (IF x = 0 THEN "SEZ" ELSE "CLZ") >>)),
                 When(cycle = 3,
                      Stage(<< "alu8_func" :> (IF x = 0 THEN "SEZ" ELSE "CLZ"),
                               end_instr(pc) >>)) >>)

\* IN_DE_X with increment and decrement the other way round
IN_DE_X_swapped ==
    LET dec == Bit(instr, 0)
    IN  Stage(<< When(cycle = 1,
                      Stage(<< "VMA" :> 0,
                               "Addr" :> x,
                               "x" :> (IF dec = 1 THEN Plus16(x, 1)
                                       ELSE Plus16(x, -1)) >>)),
                 When(cycle = 2,
                      Stage(<< "VMA" :> 0, "Addr" :> x >>)),
                 When(cycle = 3,
                      Stage(<< "alu8_func" :> (IF x = 0 THEN "SEZ" ELSE "CLZ"),
                               end_instr(pc) >>)) >>)

IN_DE_X ==
    LET dec == Bit(instr, 0)
    IN  Stage(<< When(cycle = 1,
                      Stage(<< "VMA" :> 0,
                               "Addr" :> x,
                               "x" :> (IF dec = 1 THEN Plus16(x, -1)
                                       ELSE Plus16(x, 1)) >>)),
                 When(cycle = 2,
                      Stage(<< "VMA" :> 0, "Addr" :> x >>)),
                 When(cycle = 3,
                      Stage(<< "alu8_func" :> (IF x = 0 THEN "SEZ" ELSE "CLZ"),
                               end_instr(pc) >>)) >>)


\* JMP that handles the extended mode only
JMP_ext_only ==
    IF mode = EXTENDED THEN
        Stage(<< mode_ext,
                 When(cycle = 2, end_instr(mode_ext_operand)) >>)
    ELSE Nop


\* JMP that takes the extended target from the address latch
JMP_stale ==
    IF mode = EXTENDED THEN
        Stage(<< mode_ext,
                 When(cycle = 2, end_instr(tmp16)) >>)
    ELSE IF mode = INDEXED THEN
        Stage(<< mode_indexed,
                 When(cycle = 3, end_instr(mode_indexed_operand)) >>)
    ELSE Nop

JMP ==
    IF mode = EXTENDED THEN
        Stage(<< mode_ext,
                 When(cycle = 2, end_instr(mode_ext_operand)) >>)
    ELSE IF mode = INDEXED THEN
        Stage(<< mode_indexed,
                 When(cycle = 3, end_instr(mode_indexed_operand)) >>)
    ELSE Nop


\* NOP that ends one byte further on
NOP_skip == end_instr(Plus16(pc, 1))

NOP == end_instr(pc)

\* STA that leaves VMA asserted before the write in direct mode
STA_direct_vma ==
    LET bsel == Bit(instr, 6)
    IN  IF mode = DIRECT THEN
            Stage(<< mode_direct,
                     When(cycle = 1,
                          Stage(<< "Addr" :> mode_direct_operand,
                                   "RW" :> 1 >>)),
                     When(cycle = 2,
                          Stage(<< "Addr" :> mode_direct_operand,
                                   "Dout" :> acc(bsel),
                                   "RW" :> 0 >>)),
                     When(cycle = 3,
                          Stage(<< "write" :> <<Addr, Dout>>,
                                   "src8_2" :> acc(bsel),
                                   "alu8_func" :> "LD",
                                   end_instr(pc) >>)) >>)
        ELSE IF mode = EXTENDED THEN
            Stage(<< mode_ext,
                     When(cycle = 2,
                          Stage(<< "VMA" :> 0,
                                   "Addr" :> mode_ext_operand,
                                   "RW" :> 1 >>)),
                     When(cycle = 3,
                          Stage(<< "Addr" :> mode_ext_operand,
                                   "Dout" :> acc(bsel),
                                   "RW" :> 0 >>)),
                     When(cycle = 4,
                          Stage(<< "write" :> <<Addr, Dout>>,
                                   "src8_2" :> acc(bsel),
                                   "alu8_func" :> "LD",
                                   end_instr(pc) >>)) >>)
        ELSE IF mode = INDEXED THEN
            Stage(<< mode_indexed,
                     When(cycle = 3,
                          Stage(<< "VMA" :> 0,
                                   "Addr" :> mode_indexed_operand,
                                   "RW" :> 1 >>)),
                     When(cycle = 4,
                          Stage(<< "Addr" :> mode_indexed_operand,
                                   "Dout" :> acc(bsel),
                                   "RW" :> 0 >>)),
                     When(cycle = 5,
                          Stage(<< "write" :> <<Addr, Dout>>,
                                   "src8_2" :> acc(bsel),
                                   "alu8_func" :> "LD",
                                   end_instr(pc) >>)) >>)
        ELSE Nop

\* STA that ends the indexed mode as it sets up the write
STA_indexed_early ==
    LET bsel == Bit(instr, 6)
    IN  IF mode = DIRECT THEN
            Stage(<< mode_direct,
                     When(cycle = 1,
                          Stage(<< "VMA" :> 0,
                                   "Addr" :> mode_direct_operand,
                                   "RW" :> 1 >>)),
                     When(cycle = 2,
                          Stage(<< "Addr" :> mode_direct_operand,
                                   "Dout" :> acc(bsel),
                                   "RW" :> 0 >>)),
                     When(cycle = 3,
                          Stage(<< "write" :> <<Addr, Dout>>,
                                   "src8_2" :> acc(bsel),
                                   "alu8_func" :> "LD",
                                   end_instr(pc) >>)) >>)
        ELSE IF mode = EXTENDED THEN
            Stage(<< mode_ext,
                     When(cycle = 2,
                          Stage(<< "VMA" :> 0,
                                   "Addr" :> mode_ext_operand,
                                   "RW" :> 1 >>)),
                     When(cycle = 3,
                          Stage(<< "Addr" :> mode_ext_operand,
                                   "Dout" :> acc(bsel),
                                   "RW" :> 0 >>)),
                     When(cycle = 4,
                          Stage(<< "write" :> <<Addr, Dout>>,
                                   "src8_2" :> acc(bsel),
                                   "alu8_func" :> "LD",
                                   end_instr(pc) >>)) >>)
        ELSE IF mode = INDEXED THEN
            Stage(<< mode_indexed,
                     When(cycle = 3,
                          Stage(<< "VMA" :> 0,
                                   "Addr" :> mode_indexed_operand,
                                   "RW" :> 1 >>)),
                     When(cycle = 4,
                          Stage(<< "Addr" :> mode_indexed_operand,
                                   "Dout" :> acc(bsel),
                                   "RW" :> 0 >>)),
                     When(cycle = 4,
                          Stage(<< "write" :> <<Addr, Dout>>,
                                   "src8_2" :> acc(bsel),
                                   "alu8_func" :> "LD",
                                   end_instr(pc) >>)) >>)
        ELSE Nop

STA ==
    LET bsel == Bit(instr, 6)
    IN  IF mode = DIRECT THEN
            Stage(<< mode_direct,
                     When(cycle = 1,
                          Stage(<< "VMA" :> 0,
                                   "Addr" :> mode_direct_operand,
                                   "RW" :> 1 >>)),
                     When(cycle = 2,
                          Stage(<< "Addr" :> mode_direct_operand,
                                   "Dout" :> acc(bsel),
                                   "RW" :> 0 >>)),
                     When(cycle = 3,
                          Stage(<< "write" :> <<Addr, Dout>>,
                                   "src8_2" :> acc(bsel),
                                   "alu8_func" :> "LD",
                                   end_instr(pc) >>)) >>)
        ELSE IF mode = EXTENDED THEN
            Stage(<< mode_ext,
                     When(cycle = 2,
                          Stage(<< "VMA" :> 0,
                                   "Addr" :> mode_ext_operand,
                                   "RW" :> 1 >>)),
                     When(cycle = 3,
                          Stage(<< "Addr" :> mode_ext_operand,
                                   "Dout" :> acc(bsel),
                                   "RW" :> 0 >>)),
                     When(cycle = 4,
                          Stage(<< "write" :> <<Addr, Dout>>,
                                   "src8_2" :> acc(bsel),
                                   "alu8_func" :> "LD",
                                   end_instr(pc) >>)) >>)
        ELSE IF mode = INDEXED THEN
            Stage(<< mode_indexed,
                     When(cycle = 3,
                          Stage(<< "VMA" :> 0,
                                   "Addr" :> mode_indexed_operand,
                                   "RW" :> 1 >>)),
                     When(cycle = 4,
                          Stage(<< "Addr" :> mode_indexed_operand,
                                   "Dout" :> acc(bsel),
                                   "RW" :> 0 >>)),
                     When(cycle = 5,
                          Stage(<< "write" :> <<Addr, Dout>>,
                                   "src8_2" :> acc(bsel),
                                   "alu8_func" :> "LD",
                                   end_instr(pc) >>)) >>)
        ELSE Nop

TAP ==
    When(cycle = 1,
         Stage(<< "alu8_func" :> "TAP", "src8_1" :> a, end_instr(pc) >>))

TPA(alu8) ==
    When(cycle = 1,
         Stage(<< "alu8_func" :> "TPA", "a" :> alu8, end_instr(pc) >>))

\* the decode table with the last bit of the LDA pattern left open
DecodeTable_lda_wide ==
    << << <<"0","0","0","0","0","0","0","1">>, "NOP" >>,
       << <<"0","0","0","0","0","1","1","0">>, "TAP" >>,
       << <<"0","0","0","0","0","1","1","1">>, "TPA" >>,
       << <<"0","0","0","0","1","0","0","-">>, "IN_DE_X" >>,
       << <<"0","0","0","0","1","0","1","-">>, "CL_SE_V" >>,
       << <<"0","0","0","0","1","1","0","-">>, "CL_SE_C" >>,
       << <<"0","0","0","0","1","1","1","-">>, "CL_SE_I" >>,
       << <<"0","0","1","0","-","-","-","-">>, "BR" >>,
       << <<"0","1","-","-","0","0","0","0">>, "NEG" >>,
       << <<"0","1","-","-","0","0","1","1">>, "COM" >>,
       << <<"0","1","-","-","0","1","0","0">>, "LSR" >>,
       << <<"0","1","-","-","0","1","1","0">>, "ROR" >>,
       << <<"0","1","-","-","0","1","1","1">>, "ASR" >>,
       << <<"0","1","-","-","1","0","0","0">>, "ASL" >>,
       << <<"0","1","-","-","1","0","0","1">>, "ROL" >>,
       << <<"0","1","-","-","1","0","1","0">>, "DEC" >>,
       << <<"0","1","-","-","1","1","0","0">>, "INC" >>,
       << <<"0","1","-","-","1","1","0","1">>, "TST" >>,
       << <<"0","1","1","-","1","1","1","0">>, "JMP" >>,
       << <<"0","1","-","-","1","1","1","1">>, "CLR" >>,
       << <<"1","-","-","-","0","1","1","-">>, "LDA" >>,
       << <<"1","-","-","-","0","0","0","0">>, "SUB" >>,
       << <<"1","-","-","-","0","0","0","1">>, "CMP" >>,
       << <<"1","-","-","-","0","0","1","0">>, "SBC" >>,
       << <<"1","-","-","-","0","1","0","0">>, "AND" >>,
       << <<"1","-","-","-","0","1","0","1">>, "BIT" >>,
       << <<"1","-","-","1","0","1","1","1">>, "STA" >>,
       << <<"1","-","1","0","0","1","1","1">>, "STA" >>,
       << <<"1","-","-","-","1","0","0","0">>, "EOR" >>,
       << <<"1","-","-","-","1","0","0","1">>, "ADC" >>,
       << <<"1","-","-","-","1","0","1","0">>, "ORA" >>,
       << <<"1","-","-","-","1","0","1","1">>, "ADD" >>
    >>

\* the Cases of the Switch on instr, in program order
DecodeTable ==
    << << <<"0","0","0","0","0","0","0","1">>, "NOP" >>,
       << <<"0","0","0","0","0","1","1","0">>, "TAP" >>,
       << <<"0","0","0","0","0","1","1","1">>, "TPA" >>,
       << <<"0","0","0","0","1","0","0","-">>, "IN_DE_X" >>,
       << <<"0","0","0","0","1","0","1","-">>, "CL_SE_V" >>,
       << <<"0","0","0","0","1","1","0","-">>, "CL_SE_C" >>,
       << <<"0","0","0","0","1","1","1","-">>, "CL_SE_I" >>,
       << <<"0","0","1","0","-","-","-","-">>, "BR" >>,
       << <<"0","1","-","-","0","0","0","0">>, "NEG" >>,
       << <<"0","1","-","-","0","0","1","1">>, "COM" >>,
       << <<"0","1","-","-","0","1","0","0">>, "LSR" >>,
       << <<"0","1","-","-","0","1","1","0">>, "ROR" >>,
       << <<"0","1","-","-","0","1","1","1">>, "ASR" >>,
       << <<"0","1","-","-","1","0","0","0">>, "ASL" >>,
       << <<"0","1","-","-","1","0","0","1">>, "ROL" >>,
       << <<"0","1","-","-","1","0","1","0">>, "DEC" >>,
       << <<"0","1","-","-","1","1","0","0">>, "INC" >>,
       << <<"0","1","-","-","1","1","0","1">>, "TST" >>,
       << <<"0","1","1","-","1","1","1","0">>, "JMP" >>,
       << <<"0","1","-","-","1","1","1","1">>, "CLR" >>,
       << <<"1","-","-","-","0","1","1","0">>, "LDA" >>,
       << <<"1","-","-","-","0","0","0","0">>, "SUB" >>,
       << <<"1","-","-","-","0","0","0","1">>, "CMP" >>,
       << <<"1","-","-","-","0","0","1","0">>, "SBC" >>,
       << <<"1","-","-","-","0","1","0","0">>, "AND" >>,
       << <<"1","-","-","-","0","1","0","1">>, "BIT" >>,
       << <<"1","-","-","1","0","1","1","1">>, "STA" >>,
       << <<"1","-","1","0","0","1","1","1">>, "STA" >>,
       << <<"1","-","-","-","1","0","0","0">>, "EOR" >>,
       << <<"1","-","-","-","1","0","0","1">>, "ADC" >>,
       << <<"1","-","-","-","1","0","1","0">>, "ORA" >>,
       << <<"1","-","-","-","1","0","1","1">>, "ADD" >>
    >>

\* the Case a Switch takes: the first that matches, or the Default
FirstMatch(op) ==
    LET bits == BitString(op)
        hits == { i \in 1..Len(DecodeTable) : Matches(bits, DecodeTable[i][1]) }
    IN  IF hits = {} THEN "Default"
        ELSE DecodeTable[CHOOSE i \in hits : \A j \in hits : i <= j][2]

Decode == [op \in 0..255 |-> FirstMatch(op)]

\* execute without the Default case
execute_no_default(alu8) ==
    LET h == Decode[instr]
    IN  CASE h = "NOP" -> NOP
          [] h = "TAP" -> TAP
          [] h = "TPA" -> TPA(alu8)
          [] h = "IN_DE_X" -> IN_DE_X
          [] h = "CL_SE_V" -> CL_SE_V
          [] h = "CL_SE_C" -> CL_SE_C
          [] h = "CL_SE_I" -> CL_SE_I
          [] h = "BR" -> BR
          [] h = "NEG" -> ALU2(alu8, "SUB", 0, 1, TRUE)
          [] h = "COM" -> ALU2(alu8, "COM", 0, 1, TRUE)
          [] h = "LSR" -> ALU2(alu8, "LSR", 0, 1, TRUE)
          [] h = "ROR" -> ALU2(alu8, "ROR", 0, 1, TRUE)
          [] h = "ASR" -> ALU2(alu8, "ASR", 0, 1, TRUE)
          [] h = "ASL" -> ALU2(alu8, "ASL", 0, 1, TRUE)
          [] h = "ROL" -> ALU2(alu8, "ROL", 0, 1, TRUE)
          [] h = "DEC" -> ALU2(alu8, "DEC", 0, 1, TRUE)
          [] h = "INC" -> ALU2(alu8, "INC", 0, 1, TRUE)
          [] h = "TST" -> ALU2(alu8, "SUB", 1, 0, FALSE)
          [] h = "JMP" -> JMP
          [] h = "CLR" -> ALU2(alu8, "SUB", 1, 1, TRUE)
          [] h = "LDA" -> ALU(alu8, "LD", TRUE)
          [] h = "SUB" -> ALU(alu8, "SUB", TRUE)
          [] h = "CMP" -> ALU(alu8, "SUB", FALSE)
          [] h = "SBC" -> ALU(alu8, "SBC", TRUE)
          [] h = "AND" -> ALU(alu8, "AND", TRUE)
          [] h = "BIT" -> ALU(alu8, "AND", FALSE)
          [] h = "STA" -> STA
          [] h = "EOR" -> ALU(alu8, "EOR", TRUE)
          [] h = "ADC" -> ALU(alu8, "ADC", TRUE)
          [] h = "ORA" -> ALU(alu8, "ORA", TRUE)
          [] h = "ADD" -> ALU(alu8, "ADD", TRUE)
          [] OTHER -> Nop

execute(alu8) ==
    LET h == Decode[instr]
    IN  CASE h = "NOP" -> NOP
          [] h = "TAP" -> TAP
          [] h = "TPA" -> TPA(alu8)
          [] h = "IN_DE_X" -> IN_DE_X
          [] h = "CL_SE_V" -> CL_SE_V
          [] h = "CL_SE_C" -> CL_SE_C
          [] h = "CL_SE_I" -> CL_SE_I
          [] h = "BR" -> BR
          [] h = "NEG" -> ALU2(alu8, "SUB", 0, 1, TRUE)
          [] h = "COM" -> ALU2(alu8, "COM", 0, 1, TRUE)
          [] h = "LSR" -> ALU2(alu8, "LSR", 0, 1, TRUE)
          [] h = "ROR" -> ALU2(alu8, "ROR", 0, 1, TRUE)
          [] h = "ASR" -> ALU2(alu8, "ASR", 0, 1, TRUE)
          [] h = "ASL" -> ALU2(alu8, "ASL", 0, 1, TRUE)
          [] h = "ROL" -> ALU2(alu8, "ROL", 0, 1, TRUE)
          [] h = "DEC" -> ALU2(alu8, "DEC", 0, 1, TRUE)
          [] h = "INC" -> ALU2(alu8, "INC", 0, 1, TRUE)
          [] h = "TST" -> ALU2(alu8, "SUB", 1, 0, FALSE)
          [] h = "JMP" -> JMP
          [] h = "CLR" -> ALU2(alu8, "SUB", 1, 1, TRUE)
          [] h = "LDA" -> ALU(alu8, "LD", TRUE)
          [] h = "SUB" -> ALU(alu8, "SUB", TRUE)
          [] h = "CMP" -> ALU(alu8, "SUB", FALSE)
          [] h = "SBC" -> ALU(alu8, "SBC", TRUE)
          [] h = "AND" -> ALU(alu8, "AND", TRUE)
          [] h = "BIT" -> ALU(alu8, "AND", FALSE)
          [] h = "STA" -> STA
          [] h = "EOR" -> ALU(alu8, "EOR", TRUE)
          [] h = "ADC" -> ALU(alu8, "ADC", TRUE)
          [] h = "ORA" -> ALU(alu8, "ORA", TRUE)
          [] h = "ADD" -> ALU(alu8, "ADD", TRUE)
          [] OTHER -> end_instr(pc)


\* the calls of end_instr in the handlers, in source order: for each, whether
\* the conditions around it hold in this cycle
end_instr_sites ==
    LET h == Decode[instr]
        alu == h \in {"LDA", "SUB", "CMP", "SBC", "AND", "BIT", "EOR", "ADC",
                      "ORA", "ADD"}
        alu2 == h \in {"NEG", "COM", "LSR", "ROR", "ASR", "ASL", "ROL", "DEC",
                       "INC", "TST", "CLR"}
    IN  << h = "Default",
           alu /\ mode = DIRECT /\ cycle = 2,
           alu /\ mode = EXTENDED /\ cycle = 3,
           alu /\ mode = IMMEDIATE /\ cycle = 2,
           alu /\ mode = INDEXED /\ cycle = 4,
           alu2 /\ mode = MODE_A,
           alu2 /\ mode = MODE_B,
           alu2 /\ mode = EXTENDED /\ cycle = 5,
           alu2 /\ mode = INDEXED /\ cycle = 6,
           h = "BR" /\ cycle = 3,
           h = "CL_SE_C" /\ cycle = 1,
           h = "CL_SE_V" /\ cycle = 1,
           h = "CL_SE_I" /\ cycle = 1,
           h = "IN_DE_X" /\ cycle = 3,
           h = "JMP" /\ mode = EXTENDED /\ cycle = 2,
           h = "JMP" /\ mode = INDEXED /\ cycle = 3,
           h = "NOP",
           h = "STA" /\ mode = DIRECT /\ cycle = 3,
           h = "STA" /\ mode = EXTENDED /\ cycle = 4,
           h = "STA" /\ mode = INDEXED /\ cycle = 5,
           h = "TAP" /\ cycle = 1,
           h = "TPA" /\ cycle = 1 >>

\* elaborate that fetches and executes in every reset state
elaborate_ungated(alu8) ==
    LET s == Stage(<< defaults,
                      reset_handler,
                      IF cycle = 0 THEN fetch ELSE execute(alu8) >>)
    IN  Stage(<< s, end_instr_flag_handler(s) >>)

\* elaborate with end_instr_flag_handler placed before fetch and execute
elaborate_end_first(alu8) ==
    LET s == Stage(<< defaults,
                      reset_handler,
                      When(reset_state = 3,
                           IF cycle = 0 THEN fetch ELSE execute(alu8)) >>)
    IN  Stage(<< defaults,
                 reset_handler,
                 end_instr_flag_handler(s),
                 When(reset_state = 3,
                      IF cycle = 0 THEN fetch ELSE execute(alu8)) >>)

\* Core.elaborate: everything assigned in this cycle, in program order
elaborate(alu8) ==
    LET s == Stage(<< defaults,
                      reset_handler,
                      When(reset_state = 3,
                           IF cycle = 0 THEN fetch ELSE execute(alu8)) >>)
    IN  Stage(<< s, end_instr_flag_handler(s) >>)

(* The combinational signals of the current cycle *)

end_instr_flag == elaborate(0)["end_instr_flag"]

end_instr_addr == elaborate(0)["end_instr_addr"]

alu8_func == elaborate(0)["alu8_func"]

src8_1 == elaborate(0)["src8_1"]

src8_2 == elaborate(0)["src8_2"]

-----------------------------------------------------------------------------
(* The formal hook (formal.verification.FormalData) *)

preSnapshot ==
    [snapshot_taken |-> TRUE, instr |-> Din, pre_ccs |-> ccs,
     pre_a |-> a, pre_b |-> b, pre_x |-> x, pre_sp |-> sp, pre_pc |-> pc,
     reads |-> <<>>, writes |-> <<>>]

collect(s) ==
    [formalData EXCEPT
        !.reads = IF "read" \in DOMAIN s THEN Append(@, s["read"]) ELSE @,
        !.writes = IF "write" \in DOMAIN s THEN Append(@, s["write"]) ELSE @]

maybe_do_formal_verification(s) ==
    IF cycle = 0 /\ reset_state = 3 THEN preSnapshot ELSE collect(s)

-----------------------------------------------------------------------------
(* The clock edge *)

\* what the memory puts on Din in the cycle that follows
NextDin(s, ops, cap) ==
    LET rs == Get(s, "reset_state", reset_state)
    IN  IF rs = 1 THEN VectorHi
        ELSE IF rs = 2 THEN VectorLo
        ELSE IF s["cycle"] = 0 THEN (IF ninstr < cap THEN ops ELSE {1})
        ELSE DataBytes

Edge(ops, cap) ==
    \E c \in {elaborate(0)} :
    \E res \in ALU8(c["alu8_func"], c["src8_1"], c["src8_2"], ccs) :
    \E s \in {IF res.out = 0 THEN c ELSE elaborate(res.out)} :
            /\ Addr' = Get(s, "Addr", Addr)
            /\ Dout' = Get(s, "Dout", Dout)
            /\ RW' = Get(s, "RW", RW)
            /\ VMA' = Get(s, "VMA", VMA)
            /\ a' = Get(s, "a", a)
            /\ b' = Get(s, "b", b)
            /\ x' = Get(s, "x", x)
            /\ sp' = Get(s, "sp", sp)
            /\ pc' = Get(s, "pc", pc)
            /\ instr' = Get(s, "instr", instr)
            /\ tmp8' = Get(s, "tmp8", tmp8)
            /\ tmp16' = Get(s, "tmp16", tmp16)
            /\ reset_state' = Get(s, "reset_state", reset_state)
            /\ cycle' = Get(s, "cycle", cycle)
            /\ ccs' = res.ccs
            /\ formalData' = maybe_do_formal_verification(s)
            /\ Din' \in NextDin(s, ops, cap)

ResetTick(ops, cap) ==
    /\ reset_state # 3
    /\ Edge(ops, cap)
    /\ UNCHANGED ninstr

FetchTick(ops, cap) ==
    /\ reset_state = 3
    /\ cycle = 0
    /\ ninstr < cap
    /\ Edge(ops, cap)
    /\ ninstr' = ninstr + 1

ExecuteTick(ops, cap) ==
    /\ reset_state = 3
    /\ cycle # 0
    /\ Edge(ops, cap)
    /\ UNCHANGED ninstr

Init ==
    /\ Addr = 0
    /\ Din \in DataBytes
    /\ Dout = 0
    /\ RW = 1
    /\ VMA = 0
    /\ \E r \in InitRegs :
        /\ a = r.a
        /\ b = r.b
        /\ x = r.x
        /\ sp = r.sp
        /\ instr = r.instr
        /\ tmp8 = r.tmp8
        /\ tmp16 = r.tmp16
        /\ ccs = r.ccs
    /\ pc = 0
    /\ reset_state = 0
    /\ cycle = 0
    /\ formalData = [snapshot_taken |-> FALSE, instr |-> 0, pre_ccs |-> {},
                     pre_a |-> 0, pre_b |-> 0, pre_x |-> 0, pre_sp |-> 0,
                     pre_pc |-> 0, reads |-> <<>>, writes |-> <<>>]
    /\ ninstr = 0

Next ==
    \/ ResetTick(Opcodes, MaxInstr)
    \/ FetchTick(Opcodes, MaxInstr)
    \/ ExecuteTick(Opcodes, MaxInstr)

Spec == Init /\ [][Next]_vars

NextAll ==
    \/ ResetTick(AllOpcodes, MaxInstrAll)
    \/ FetchTick(AllOpcodes, MaxInstrAll)
    \/ ExecuteTick(AllOpcodes, MaxInstrAll)

SpecAll == Init /\ [][NextAll]_vars

-----------------------------------------------------------------------------
(* Branches: the sixteen branch opcodes under every vector of N, Z, V, C,  *)
(* with the reset vector 0x1234 and the offset 0xFE of the simulation      *)
(* memory among the vectors and offsets.                                   *)

\* bound on the number of branch instructions fetched
MaxInstrBranch == 1

BranchOpcodes == 32..47

BranchOffsets == {0, 127, 128, 254}

BranchVectorHi == {18, 255}

BranchVectorLo == {52, 255}

BranchFlags == SUBSET {"N", "Z", "V", "C"}

\* what the memory puts on Din in the cycle that follows
NextDinBranch(s) ==
    LET rs == Get(s, "reset_state", reset_state)
    IN  IF rs = 1 THEN BranchVectorHi
        ELSE IF rs = 2 THEN BranchVectorLo
        ELSE IF s["cycle"] = 0 THEN
            (IF ninstr < MaxInstrBranch THEN BranchOpcodes ELSE {1})
        ELSE BranchOffsets

EdgeBranch ==
    \E c \in {elaborate(0)} :
    \E res \in ALU8(c["alu8_func"], c["src8_1"], c["src8_2"], ccs) :
    \E s \in {IF res.out = 0 THEN c ELSE elaborate(res.out)} :
            /\ Addr' = Get(s, "Addr", Addr)
            /\ Dout' = Get(s, "Dout", Dout)
            /\ RW' = Get(s, "RW", RW)
            /\ VMA' = Get(s, "VMA", VMA)
            /\ a' = Get(s, "a", a)
            /\ b' = Get(s, "b", b)
            /\ x' = Get(s, "x", x)
            /\ sp' = Get(s, "sp", sp)
            /\ pc' = Get(s, "pc", pc)
            /\ instr' = Get(s, "instr", instr)
            /\ tmp8' = Get(s, "tmp8", tmp8)
            /\ tmp16' = Get(s, "tmp16", tmp16)
            /\ reset_state' = Get(s, "reset_state", reset_state)
            /\ cycle' = Get(s, "cycle", cycle)
            /\ ccs' = res.ccs
            /\ formalData' = maybe_do_formal_verification(s)
            /\ Din' \in NextDinBranch(s)

BranchResetTick ==
    /\ reset_state # 3
    /\ EdgeBranch
    /\ UNCHANGED ninstr

BranchFetchTick ==
    /\ reset_state = 3
    /\ cycle = 0
    /\ ninstr < MaxInstrBranch
    /\ EdgeBranch
    /\ ninstr' = ninstr + 1

BranchExecuteTick ==
    /\ reset_state = 3
    /\ cycle # 0
    /\ EdgeBranch
    /\ UNCHANGED ninstr

InitBranch ==
    /\ Addr = 0
    /\ Din = 255
    /\ Dout = 0
    /\ RW = 1
    /\ VMA = 0
    /\ a = 0
    /\ b = 85
    /\ x = 2
    /\ sp = 511
    /\ instr = 151
    /\ tmp8 = 170
    /\ tmp16 = 4660
    /\ ccs \in BranchFlags
    /\ pc = 0
    /\ reset_state = 0
    /\ cycle = 0
    /\ formalData = [snapshot_taken |-> FALSE, instr |-> 0, pre_ccs |-> {},
                     pre_a |-> 0, pre_b |-> 0, pre_x |-> 0, pre_sp |-> 0,
                     pre_pc |-> 0, reads |-> <<>>, writes |-> <<>>]
    /\ ninstr = 0

NextBranch ==
    \/ BranchResetTick
    \/ BranchFetchTick
    \/ BranchExecuteTick

SpecBranch == InitBranch /\ [][NextBranch]_vars

-----------------------------------------------------------------------------
(* The index register: INX and DEX in sequence from values of X at and     *)
(* next to the ends of its range.                                          *)

\* bound on the number of INX and DEX fetched
MaxInstrIndex == 2

IndexOpcodes == {8, 9}

IndexValues == {0, 1, 32767, 65535}

InitIndex ==
    /\ Addr = 0
    /\ Din \in DataBytes
    /\ Dout = 0
    /\ RW = 1
    /\ VMA = 0
    /\ a = 0
    /\ b = 85
    /\ x \in IndexValues
    /\ sp = 511
    /\ instr = 151
    /\ tmp8 = 170
    /\ tmp16 = 4660
    /\ ccs \in {{}, {"Z", "C"}}
    /\ pc = 0
    /\ reset_state = 0
    /\ cycle = 0
    /\ formalData = [snapshot_taken |-> FALSE, instr |-> 0, pre_ccs |-> {},
                     pre_a |-> 0, pre_b |-> 0, pre_x |-> 0, pre_sp |-> 0,
                     pre_pc |-> 0, reads |-> <<>>, writes |-> <<>>]
    /\ ninstr = 0

NextIndex ==
    \/ ResetTick(IndexOpcodes, MaxInstrIndex)
    \/ FetchTick(IndexOpcodes, MaxInstrIndex)
    \/ ExecuteTick(IndexOpcodes, MaxInstrIndex)

SpecIndex == InitIndex /\ [][NextIndex]_vars

-----------------------------------------------------------------------------
(* Vocabulary of the properties *)

\* the core is executing cycle 1 or later of the instruction in instr
Executing == reset_state = 3 /\ cycle >= 1

\* an instruction has just completed: this is cycle 0 of the next one, and
\* formalData holds what the completed one (still in instr) did
InstrDone == reset_state = 3 /\ cycle = 0 /\ formalData.snapshot_taken

\* the address the completed instruction was fetched at
FetchedAt == formalData.pre_pc

ReadAddr(i) == formalData.reads[i][1]

ReadData(i) == formalData.reads[i][2]

WriteAddr(i) == formalData.writes[i][1]

WriteData(i) == formalData.writes[i][2]

AluFamily == {"LDA", "SUB", "CMP", "SBC", "AND", "BIT", "EOR", "ADC", "ORA", "ADD"}

Alu2Family == {"NEG", "COM", "LSR", "ROR", "ASR", "ASL", "ROL", "DEC", "INC",
               "TST", "CLR"}

-----------------------------------------------------------------------------
(* C1: after a reset the core drives Addr = 0xFFFE and then Addr = 0xFFFF, *)
(* both with RW = read, and on the edge after that pc and Addr become the  *)
(* byte sampled at 0xFFFE (high) and the byte sampled at 0xFFFF (low),     *)
(* with reset_state = 3 and cycle = 0.                                     *)
C1_ResetVector ==
    [][ /\ reset_state = 0 =>
            (reset_state' = 1 /\ Addr' = 65534 /\ RW' = 1)
        /\ reset_state = 1 =>
            /\ Addr = 65534 /\ RW = 1
            /\ reset_state' = 2 /\ Addr' = 65535 /\ RW' = 1
            /\ tmp8' = Din
        /\ reset_state = 2 =>
            /\ Addr = 65535 /\ RW = 1
            /\ reset_state' = 3 /\ cycle' = 0
            /\ pc' = tmp8 * 256 + Din
            /\ Addr' = tmp8 * 256 + Din ]_vars

\* the vector 0xFF00 has been read: high and low byte differ
C1_Witness ==
    reset_state = 3 /\ cycle = 0 /\ ninstr = 0 /\ pc = 65280 /\ Addr = 65280

(* C2: reset_state goes 0, 1, 2, 3 on successive edges and, once 3, stays  *)
(* 3 on every later edge, whatever is executed.                            *)
C2_ResetStateSequence ==
    [][reset_state' = IF reset_state < 3 THEN reset_state + 1 ELSE 3]_vars

\* reset_state is 3 in the last cycle of a store
C2_Witness ==
    reset_state = 3 /\ ninstr >= 1 /\ cycle = 5 /\ Decode[instr] = "STA"

(* C3: while reset_state is not 3 the edge leaves instr, a, b, x and sp    *)
(* alone, and changes pc only when it leaves reset state 2.                *)
C3_ResetHasPriority ==
    [][reset_state # 3 =>
          /\ instr' = instr /\ a' = a /\ b' = b /\ x' = x /\ sp' = sp
          /\ (reset_state # 2 => pc' = pc) ]_vars

\* the reset sequence has run with INX in the instruction latch, for which
\* a dispatch in cycle 1 would change x
C3_Witness ==
    reset_state = 3 /\ ninstr = 0 /\ instr = 8 /\ x = 65535

(* C4: when end_instr_flag is asserted with end_instr_addr = T, after the  *)
(* edge pc = T, Addr = T, RW = read and cycle = 0, also when the handler   *)
(* assigned pc in the same cycle.                                          *)
C4_EndOfInstruction ==
    [][end_instr_flag =>
          /\ pc' = end_instr_addr /\ Addr' = end_instr_addr
          /\ RW' = 1 /\ cycle' = 0 ]_vars

\* JMP extended has completed at a target that is not the pc + 1 mode_ext
\* assigned in the same cycle
C4_Witness ==
    /\ InstrDone /\ instr = 126
    /\ pc = Cat(ReadData(2), ReadData(1))
    /\ pc # Plus16(FetchedAt, 3)

(* C5: in reset state 3 the cycle counter becomes 0 on exactly the edges   *)
(* at which end_instr_flag is asserted and otherwise goes up by 1; cycle   *)
(* is at most 6 in every reachable state.                                  *)
C5_CycleCounter ==
    /\ [](cycle <= 6)
    /\ [][reset_state = 3 =>
             cycle' = IF end_instr_flag THEN 0 ELSE cycle + 1]_vars

\* the last cycle of an indexed read-modify-write instruction
C5_Witness == Executing /\ cycle = 6 /\ end_instr_flag

\* the cycle in which each opcode asserts end_instr_flag, by the handler the
\* opcode decodes to and its addressing mode bits
C6_EndCycle(op) ==
    LET h == Decode[op]
        m == (op \div 16) % 4
    IN  CASE h \in AluFamily ->
                (CASE m = DIRECT -> 2 [] m = EXTENDED -> 3
                   [] m = IMMEDIATE -> 2 [] m = INDEXED -> 4)
          [] h \in Alu2Family ->
                (CASE m = EXTENDED -> 5 [] m = INDEXED -> 6 [] OTHER -> 1)
          [] h = "STA" ->
                (CASE m = DIRECT -> 3 [] m = EXTENDED -> 4 [] m = INDEXED -> 5)
          [] h = "JMP" -> (IF m = EXTENDED THEN 2 ELSE 3)
          [] h = "BR" -> 3
          [] h = "IN_DE_X" -> 3
          [] OTHER -> 1

(* C6: the cycle in which an instruction asserts end_instr_flag is a       *)
(* function of its opcode alone: it is the same for every value of the     *)
(* registers, the flags and the bytes on Din, and the same for a taken and *)
(* a not-taken branch.                                                     *)
C6_LengthByOpcode ==
    Executing => (end_instr_flag <=> cycle = C6_EndCycle(instr))

\* a branch that was taken has completed: pc is not the fall-through address
C6_Witness ==
    /\ InstrDone /\ Decode[instr] = "BR"
    /\ pc # Plus16(FetchedAt, 2)

\* total cycles of the ALU family, fetch cycle included
C7_TotalCycles ==
    CASE mode = DIRECT -> 3 [] mode = EXTENDED -> 4
      [] mode = IMMEDIATE -> 3 [] mode = INDEXED -> 5

(* C7: an ALU-family instruction (LDA, SUB, CMP, SBC, AND, BIT, EOR, ADC,  *)
(* ORA, ADD) takes 3 cycles in direct mode, 4 in extended mode, 3 in       *)
(* immediate mode and 5 in indexed mode, fetch cycle 0 included.           *)
C7_AluCycles ==
    (Executing /\ Decode[instr] \in AluFamily) =>
        (end_instr_flag <=> cycle + 1 = C7_TotalCycles)

\* the fifth and last cycle of an indexed ADD
C7_Witness ==
    /\ Executing /\ Decode[instr] = "ADD" /\ mode = INDEXED
    /\ cycle = 4 /\ end_instr_flag

\* a direct-mode ALU-family instruction
AluDirect == Decode[instr] \in AluFamily /\ mode = DIRECT

(* C8 as stated: a direct-mode ALU-family instruction fetched at P takes   *)
(* 3 cycles and exactly one read is reported to the hook, at P + 1.        *)
C8_OneRead ==
    /\ (Executing /\ AluDirect) => (end_instr_flag <=> cycle = 2)
    /\ (InstrDone /\ AluDirect) =>
          /\ Len(formalData.reads) = 1
          /\ ReadAddr(1) = Plus16(FetchedAt, 1)

(* C8: a direct-mode ALU-family instruction fetched at P takes 3 cycles    *)
(* and exactly two reads are reported to the hook: the address byte at     *)
(* P + 1, then the operand at that byte zero-extended.                     *)
C8_DirectAluReads ==
    /\ (Executing /\ AluDirect) => (end_instr_flag <=> cycle = 2)
    /\ (InstrDone /\ AluDirect) =>
          /\ Len(formalData.reads) = 2
          /\ ReadAddr(1) = Plus16(FetchedAt, 1)
          /\ ReadAddr(2) = ReadData(1)
          /\ formalData.writes = << >>

\* a direct-mode load has completed with its operand read from page zero,
\* away from the instruction
C8_Witness ==
    /\ InstrDone /\ Decode[instr] = "LDA" /\ mode = DIRECT
    /\ Len(formalData.reads) = 2
    /\ ReadAddr(2) = 255 /\ FetchedAt = 65280

(* C9: JMP extended (0x7E) fetched at P reads P + 1 and P + 2 and nothing  *)
(* else, ends at cycle 2 and leaves pc = byte at P + 1 (high) and byte at  *)
(* P + 2 (low); JMP indexed (0x6E) reads P + 1 and nothing else, ends at   *)
(* cycle 3 and leaves pc = (X + byte at P + 1) mod 2^16; neither writes.   *)
C9_Jmp ==
    /\ (Executing /\ instr = 126) => (end_instr_flag <=> cycle = 2)
    /\ (Executing /\ instr = 110) => (end_instr_flag <=> cycle = 3)
    /\ (Executing /\ instr \in {110, 126}) => RW = 1
    /\ (InstrDone /\ instr = 126) =>
          /\ Len(formalData.reads) = 2
          /\ ReadAddr(1) = Plus16(FetchedAt, 1)
          /\ ReadAddr(2) = Plus16(FetchedAt, 2)
          /\ formalData.writes = << >>
          /\ pc = ReadData(1) * 256 + ReadData(2)
    /\ (InstrDone /\ instr = 110) =>
          /\ Len(formalData.reads) = 1
          /\ ReadAddr(1) = Plus16(FetchedAt, 1)
          /\ formalData.writes = << >>
          /\ pc = (formalData.pre_x + ReadData(1)) % 65536

\* JMP indexed has completed with X + offset wrapping past 0xFFFF
C9_Witness ==
    /\ InstrDone /\ instr = 110
    /\ formalData.pre_x = 65535 /\ ReadData(1) = 255 /\ pc = 254

\* a store instruction
IsSta == Decode[instr] = "STA"

\* the accumulator a store selects, before the store
C10_StoredAcc == IF Bit(instr, 6) = 1 THEN formalData.pre_b ELSE formalData.pre_a

\* the effective address of a completed store, from the operand bytes read
C10_EffectiveAddr ==
    CASE mode = DIRECT -> ReadData(1)
      [] mode = EXTENDED -> ReadData(1) * 256 + ReadData(2)
      [] mode = INDEXED -> (formalData.pre_x + ReadData(1)) % 65536

(* C10: STA fetched at P, in direct, extended and indexed mode, reads the  *)
(* operand bytes only (P + 1, and P + 2 in extended mode), writes once,    *)
(* at the effective address, the value the accumulator selected by opcode  *)
(* bit 6 had before; in its last cycle the ALU gets the load function with *)
(* that accumulator, so that Z and N follow the stored value and V clears. *)
C10_Sta ==
    /\ (Executing /\ IsSta) => (RW = 0 <=> end_instr_flag)
    /\ (Executing /\ IsSta /\ end_instr_flag) =>
          /\ alu8_func = "LD"
          /\ src8_2 = (IF Bit(instr, 6) = 1 THEN b ELSE a)
          /\ src8_2 = C10_StoredAcc
    /\ (InstrDone /\ IsSta) =>
          /\ Len(formalData.reads) = (IF mode = EXTENDED THEN 2 ELSE 1)
          /\ \A i \in 1..Len(formalData.reads) :
                ReadAddr(i) = Plus16(FetchedAt, i)
          /\ Len(formalData.writes) = 1
          /\ WriteAddr(1) = C10_EffectiveAddr
          /\ WriteData(1) = C10_StoredAcc
          /\ ("Z" \in ccs) <=> (C10_StoredAcc = 0)
          /\ ("N" \in ccs) <=> (C10_StoredAcc >= 128)
          /\ "V" \notin ccs

\* STAB indexed has stored 85 from B at X + offset, clearing Z
C10_Witness ==
    /\ InstrDone /\ instr = 231
    /\ WriteData(1) = 85 /\ formalData.pre_a # 85
    /\ WriteAddr(1) = (formalData.pre_x + ReadData(1)) % 65536
    /\ "Z" \in formalData.pre_ccs /\ "Z" \notin ccs

\* a clear or set instruction for V, C or I
IsFlagInstr == instr \in 10..15

(* C11: STA, JMP and the flag instructions CLV, SEV, CLC, SEC, CLI, SEI    *)
(* leave A, B, X and SP as they were at the fetch; JMP selects ALU         *)
(* function NONE in every cycle and so leaves the flags too.               *)
C11_Frame ==
    /\ (InstrDone /\ (IsSta \/ Decode[instr] = "JMP" \/ IsFlagInstr)) =>
          /\ a = formalData.pre_a /\ b = formalData.pre_b
          /\ x = formalData.pre_x /\ sp = formalData.pre_sp
    /\ (Executing /\ Decode[instr] = "JMP") => alu8_func = "NONE"
    /\ (InstrDone /\ Decode[instr] = "JMP") => ccs = formalData.pre_ccs

\* STAB indexed has completed, with a flag changed and X at 0xFFFF
C11_Witness ==
    /\ InstrDone /\ instr = 231
    /\ x = 65535 /\ a = 128 /\ b = 85
    /\ ccs # formalData.pre_ccs

\* the ALU function a flag instruction selects
C12_Func ==
    CASE instr = 10 -> "CLV" [] instr = 11 -> "SEV"
      [] instr = 12 -> "CLC" [] instr = 13 -> "SEC"
      [] instr = 14 -> "CLI" [] instr = 15 -> "SEI"

(* C12: a flag instruction (0x0A to 0x0F) fetched at P ends at cycle 1     *)
(* with pc = P + 1, reads and writes nothing, and selects one ALU          *)
(* function, in cycle 1: clear for opcode bit 0 = 0 and set for 1, of V    *)
(* (0x0A/0x0B), C (0x0C/0x0D) and I (0x0E/0x0F).                           *)
C12_FlagInstr ==
    /\ (Executing /\ IsFlagInstr) =>
          /\ cycle = 1 /\ end_instr_flag
          /\ alu8_func = C12_Func
          /\ RW = 1
    /\ (reset_state = 3 /\ cycle = 0) => alu8_func = "NONE"
    /\ (InstrDone /\ IsFlagInstr) =>
          /\ pc = Plus16(FetchedAt, 1)
          /\ formalData.reads = << >>
          /\ formalData.writes = << >>

\* SEC has completed and set a carry that was clear
C12_Witness ==
    /\ InstrDone /\ instr = 13
    /\ "C" \notin formalData.pre_ccs /\ "C" \in ccs

(* C13: each NOP (0x01) of a sequence of NOPs adds 1 to pc in its fetch    *)
(* and ends in cycle 1 at that pc; neither of its two edges changes A, B,  *)
(* X, SP, tmp8, tmp16 or the flags, the ALU function stays NONE and RW     *)
(* stays read.                                                             *)
C13_Nop ==
    [][ ((reset_state = 3 /\ cycle = 0 /\ Din = 1) \/ (Executing /\ instr = 1)) =>
          /\ a' = a /\ b' = b /\ x' = x /\ sp' = sp
          /\ tmp8' = tmp8 /\ tmp16' = tmp16 /\ ccs' = ccs
          /\ alu8_func = "NONE"
          /\ RW' = 1
          /\ pc' = (IF cycle = 0 THEN Plus16(pc, 1) ELSE pc)
          /\ cycle' = (IF cycle = 0 THEN 1 ELSE 0)
          /\ (cycle # 0 => cycle = 1 /\ end_instr_flag) ]_vars

\* the second instruction of a run was a NOP, and the scratch register and X
\* are still as they were before the first
C13_Witness ==
    /\ InstrDone /\ instr = 1 /\ ninstr = 2
    /\ pc = Plus16(FetchedAt, 1)
    /\ tmp16 = 4660 /\ x = 65535 /\ ccs = {"Z", "C"}

\* the target of a completed branch fetched at FetchedAt: the address after
\* its two bytes plus the offset byte taken as a signed number
BranchTarget ==
    LET d == ReadData(1)
    IN  (FetchedAt + 2 + (IF d >= 128 THEN d - 256 ELSE d) + 65536) % 65536

(* C14: BRA (0x20) fetched at P with offset byte d at P + 1 is taken under *)
(* every flag vector: afterwards pc = (P + 2 + d as a signed byte) mod     *)
(* 2^16; with 0x20 at 0x1234 and 0xFE at 0x1235, pc is 0x1234 again.       *)
C14_BranchAlways ==
    /\ (Executing /\ instr = 32 /\ cycle = 3) =>
          (end_instr_flag /\ end_instr_addr = tmp16)
    /\ (InstrDone /\ instr = 32) =>
          /\ Len(formalData.reads) = 1
          /\ ReadAddr(1) = Plus16(FetchedAt, 1)
          /\ pc = BranchTarget
    /\ (InstrDone /\ instr = 32 /\ FetchedAt = 4660 /\ ReadData(1) = 254) =>
          pc = 4660

\* BRA at 0x1234 with offset 0xFE has come back to 0x1234, all of N, Z, V, C set
C14_Witness ==
    /\ InstrDone /\ instr = 32
    /\ FetchedAt = 4660 /\ ReadData(1) = 254 /\ pc = 4660
    /\ ccs = {"N", "Z", "V", "C"}

\* the base condition of a branch selector under a flag vector
C15_Base(sel, f) ==
    LET C == "C" \in f
        Z == "Z" \in f
        V == "V" \in f
        N == "N" \in f
    IN  CASE sel = 0 -> TRUE
          [] sel = 1 -> ~(C \/ Z)
          [] sel = 2 -> ~C
          [] sel = 3 -> ~Z
          [] sel = 4 -> ~V
          [] sel = 5 -> ~N
          [] sel = 6 -> ~((N /\ ~V) \/ (~N /\ V))
          [] sel = 7 -> ~(Z \/ ((N /\ ~V) \/ (~N /\ V)))

\* base(selector) XOR invert, for the opcode in instr
C15_Taken(f) ==
    LET base == C15_Base((instr \div 2) % 8, f)
        invert == (instr % 2 = 1)
    IN  (base /\ ~invert) \/ (~base /\ invert)

(* C15: a branch opcode 0x20 to 0x2F is taken exactly when base(selector)  *)
(* XOR invert is 1, under every vector of N, Z, V, C; it ends at cycle 3,  *)
(* with pc = the target when taken and pc = P + 2 when not.                *)
C15_BranchCondition ==
    /\ (Executing /\ instr \in 32..47) => (end_instr_flag <=> cycle = 3)
    /\ (Executing /\ instr \in 32..47 /\ cycle = 3) =>
          end_instr_addr = (IF C15_Taken(ccs) THEN tmp16 ELSE pc)
    /\ (InstrDone /\ instr \in 32..47) =>
          /\ ccs = formalData.pre_ccs
          /\ pc = (IF C15_Taken(formalData.pre_ccs) THEN BranchTarget
                   ELSE Plus16(FetchedAt, 2))

\* BGT (0x2E) was taken with N = V = 1 and Z = 0, forward by 127
C15_Witness ==
    /\ InstrDone /\ instr = 46
    /\ formalData.pre_ccs = {"N", "V"}
    /\ ReadData(1) = 127 /\ pc = Plus16(FetchedAt, 129)

\* the opcode matches no entry of the decode table
Unmatched ==
    [op \in 0..255 |-> \A i \in 1..Len(DecodeTable) :
                          ~Matches(BitString(op), DecodeTable[i][1])]

(* C16: an opcode that matches no decode-table entry (0x00, 0x4E, 0x87     *)
(* among them) is skipped in one cycle: it ends at cycle 1 at the current  *)
(* pc, P + 1, with RW = read and ALU function NONE, and neither its fetch  *)
(* nor its cycle 1 changes A, B, X, SP, tmp8, tmp16 or the flags.          *)
C16_IllegalOpcode ==
    /\ [](Unmatched[0] /\ Unmatched[78] /\ Unmatched[135])
    /\ []((InstrDone /\ Unmatched[instr]) =>
             /\ pc = Plus16(FetchedAt, 1)
             /\ formalData.writes = << >>)
    /\ [][ (reset_state = 3 /\ cycle = 0 /\ Unmatched[Din]) =>
             /\ a' = a /\ b' = b /\ x' = x /\ sp' = sp
             /\ tmp8' = tmp8 /\ tmp16' = tmp16 /\ ccs' = ccs
             /\ alu8_func = "NONE"
             /\ pc' = Plus16(pc, 1) /\ RW' = 1 /\ cycle' = 1 ]_vars
    /\ [][ (Executing /\ Unmatched[instr]) =>
             /\ cycle = 1 /\ end_instr_flag /\ end_instr_addr = pc
             /\ alu8_func = "NONE" /\ RW = 1
             /\ a' = a /\ b' = b /\ x' = x /\ sp' = sp
             /\ tmp8' = tmp8 /\ tmp16' = tmp16 /\ ccs' = ccs
             /\ pc' = pc /\ RW' = 1 /\ cycle' = 0
             /\ reset_state' = 3 ]_vars

\* 0x87, a store with an immediate operand, has been skipped
C16_Witness ==
    /\ InstrDone /\ instr = 135
    /\ pc = Plus16(FetchedAt, 1)
    /\ tmp16 = 4660 /\ x = 65535 /\ a = 128

\* the entries of the decode table an opcode matches
C17_Hits ==
    [op \in 0..255 |->
        { i \in 1..Len(DecodeTable) : Matches(BitString(op), DecodeTable[i][1]) }]

(* C17: every opcode matches at most one entry of the decode table, so the *)
(* handler dispatched for it is the handler of every entry it matches.     *)
C17_DecodeUnique ==
    \A op \in {instr, Din} :
        /\ Cardinality(C17_Hits[op]) <= 1
        /\ \A i \in C17_Hits[op] : DecodeTable[i][2] = Decode[op]

\* STAA direct, which shares its low bits with the other store pattern and
\* its high bit with the ALU family, has been dispatched
C17_Witness ==
    /\ InstrDone /\ instr = 151
    /\ Cardinality(C17_Hits[instr]) = 1
    /\ Len(formalData.writes) = 1

\* a read-modify-write instruction
IsAlu2 == Decode[instr] \in Alu2Family

\* the cycle in which a store ends
C18_StaEnd ==
    CASE mode = DIRECT -> 3 [] mode = EXTENDED -> 4 [] mode = INDEXED -> 5

\* the cycle in which a read-modify-write instruction ends
C18_Alu2End ==
    CASE mode = MODE_A -> 1 [] mode = MODE_B -> 1
      [] mode = EXTENDED -> 5 [] mode = INDEXED -> 6

(* C18: end_instr_flag is asserted in exactly this cycle of the            *)
(* instruction and in none before: STA direct 3, extended 4, indexed 5;    *)
(* NEG, COM, LSR, ROR, ASR, ASL, ROL, DEC, INC, TST, CLR on A or B 1,      *)
(* extended 5, indexed 6.                                                  *)
C18_StaAlu2Cycles ==
    /\ (Executing /\ IsSta) => (end_instr_flag <=> cycle = C18_StaEnd)
    /\ (Executing /\ IsAlu2) => (end_instr_flag <=> cycle = C18_Alu2End)

\* the last cycle of STAA extended (0xB7)
C18_Witness ==
    Executing /\ instr = 183 /\ cycle = 4 /\ end_instr_flag

\* a read-modify-write instruction on memory that writes its result back
Alu2Store ==
    /\ IsAlu2 /\ Decode[instr] # "TST"
    /\ mode \in {EXTENDED, INDEXED}

\* the cycle in which such an instruction has its operand on Din
C19_OperandCycle == IF mode = EXTENDED THEN 3 ELSE 4

\* the address its operand bytes give
C19_EffectiveAddr ==
    IF mode = EXTENDED THEN ReadData(1) * 256 + ReadData(2)
    ELSE (x + ReadData(1)) % 65536

(* C19: a read-modify-write instruction with write-back, extended or       *)
(* indexed, has RW = write with VMA = 1 in its final cycle and in no       *)
(* other; Addr is then the address its operand was read from, and Dout the *)
(* ALU result of the cycle that had the operand on Din, kept in tmp8.      *)
C19_Alu2WriteBack ==
    /\ []((Executing /\ Alu2Store) =>
             /\ (RW = 0 /\ VMA = 1) <=> end_instr_flag
             /\ end_instr_flag =>
                   /\ Addr = ReadAddr(Len(formalData.reads))
                   /\ Addr = C19_EffectiveAddr
                   /\ Dout = tmp8)
    /\ []((InstrDone /\ Alu2Store) =>
             /\ Len(formalData.writes) = 1
             /\ WriteAddr(1) = ReadAddr(Len(formalData.reads)))
    /\ [][ (Executing /\ Alu2Store /\ cycle = C19_OperandCycle) =>
             /\ Din \in {src8_1, src8_2}
             /\ formalData'.reads = Append(formalData.reads, <<Addr, Din>>)
             /\ tmp8' \in { r.out : r \in ALU8(alu8_func, src8_1, src8_2, ccs) } ]_vars
    /\ [][ (Executing /\ Alu2Store /\ cycle = C19_OperandCycle + 1) =>
             (tmp8' = tmp8 /\ Dout' = tmp8) ]_vars

\* COM extended in its write cycle, result 0xA5 on Dout
C19_Witness ==
    /\ Executing /\ Decode[instr] = "COM" /\ mode = EXTENDED
    /\ cycle = 5 /\ RW = 0 /\ VMA = 1
    /\ Dout = 165 /\ Addr = 65280 /\ Len(formalData.reads) = 3

\* TST on memory
TstMem == Decode[instr] = "TST" /\ mode \in {EXTENDED, INDEXED}

(* C20: TST extended or indexed has no cycle with RW = write and VMA = 1:  *)
(* in the cycle where the other read-modify-write instructions write, 5    *)
(* extended and 6 indexed, VMA is 0; TST ends in that same cycle.          *)
C20_TstNoWrite ==
    /\ (Executing /\ TstMem) =>
          /\ ~(RW = 0 /\ VMA = 1)
          /\ end_instr_flag <=> cycle = C18_Alu2End
          /\ cycle = C18_Alu2End => VMA = 0
    /\ (InstrDone /\ TstMem) => (formalData.writes = << >> /\ RW = 1)

\* TST indexed (0x6D) in its last cycle: RW = write, VMA = 0
C20_Witness ==
    /\ Executing /\ instr = 109 /\ cycle = 6
    /\ RW = 0 /\ VMA = 0 /\ end_instr_flag

\* the bus signals a handler can schedule
BusSignals == {"Addr", "RW", "Dout", "VMA"}

(* C21: in a cycle in which the handler of the instruction asserts         *)
(* end_instr_flag it schedules no assignment to Addr, RW, Dout or VMA of   *)
(* its own, for every opcode and mode; and at most one of the handlers'    *)
(* calls of end_instr is active in a cycle.                                *)
C21_NoBusAtEnd ==
    Executing =>
        LET h == execute(0)
            active == { i \in 1..Len(end_instr_sites) : end_instr_sites[i] }
        IN  /\ Get(h, "end_instr_flag", FALSE) => DOMAIN h \cap BusSignals = {}
            /\ Cardinality(active) <= 1
            /\ Get(h, "end_instr_flag", FALSE) <=> active # {}

\* JMP extended in its last cycle, where mode_ext still advances pc
C21_Witness ==
    /\ Executing /\ instr = 126 /\ cycle = 2
    /\ end_instr_flag /\ "pc" \in DOMAIN execute(0)

(* C22: a cycle with RW = write comes right after a cycle with the same    *)
(* Addr, RW = read and VMA = 0: the address of a write is on the bus one   *)
(* cycle before the data.                                                  *)
C22_WriteAddressEarly ==
    [][RW' = 0 => (RW = 1 /\ VMA = 0 /\ Addr = Addr')]_vars

\* the write cycle of STAA direct (0x97), at an address in page zero
C22_Witness ==
    /\ Executing /\ instr = 151 /\ cycle = 3
    /\ RW = 0 /\ VMA = 1 /\ Addr = 255 /\ Dout = 128

\* INX or DEX
IsInDeX == instr \in {8, 9}

\* X after the INX or DEX in instr, from X at its fetch
C23_NewX ==
    IF instr = 8 THEN (formalData.pre_x + 1) % 65536
    ELSE (formalData.pre_x + 65535) % 65536

(* C23: INX (0x08) and DEX (0x09) fetched at P make X (X + 1) mod 2^16     *)
(* and (X - 1) mod 2^16; they run cycles 1 to 3, with VMA = 0 and Addr =   *)
(* the old X in cycle 2 and VMA = 0 and Addr = the new X in cycle 3; in    *)
(* cycle 3 the ALU function is SEZ when the new X is 0 and CLZ otherwise;  *)
(* they end at cycle 3 with pc = P + 1 and A, B, SP unchanged.             *)
C23_IncDecX ==
    /\ (Executing /\ IsInDeX) =>
          /\ end_instr_flag <=> cycle = 3
          /\ cycle = 1 => x = formalData.pre_x
          /\ cycle = 2 => (x = C23_NewX /\ VMA = 0 /\ Addr = formalData.pre_x)
          /\ cycle = 3 =>
                /\ x = C23_NewX /\ VMA = 0 /\ Addr = C23_NewX
                /\ alu8_func = (IF C23_NewX = 0 THEN "SEZ" ELSE "CLZ")
    /\ (InstrDone /\ IsInDeX) =>
          /\ x = C23_NewX
          /\ pc = Plus16(FetchedAt, 1)
          /\ a = formalData.pre_a /\ b = formalData.pre_b
          /\ sp = formalData.pre_sp
          /\ formalData.reads = << >> /\ formalData.writes = << >>

\* DEX has taken X from 0 to 0xFFFF and cleared Z
C23_Witness ==
    /\ InstrDone /\ instr = 9
    /\ formalData.pre_x = 0 /\ x = 65535
    /\ "Z" \in formalData.pre_ccs /\ "Z" \notin ccs

\* an ALU-family instruction: its handler assigns VMA nowhere, so that VMA in
\* its cycles is what the defaults and the addressing-mode helper make it
IsAlu == Decode[instr] \in AluFamily

(* C24 as stated: each of mode_immediate8, mode_direct, mode_ext and       *)
(* mode_indexed makes at least one bus cycle dead (VMA = 0) with what it   *)
(* schedules in the cycles in which it forms the operand or address:       *)
(* cycle 1, and cycle 2 as well for mode_ext and mode_indexed.             *)
C24_EveryResolverDead ==
    [][ (Executing /\ IsAlu /\ cycle = 2) =>
           \/ VMA = 0
           \/ (mode \in {EXTENDED, INDEXED} /\ VMA' = 0) ]_vars

(* C24: of the four addressing-mode helpers only mode_indexed makes bus    *)
(* cycles dead: it schedules VMA = 0 in cycles 1 and 2, so that cycles 2   *)
(* and 3 are dead; mode_immediate8, mode_direct and mode_ext never assign  *)
(* VMA, which stays 1 in the cycles that follow theirs.                    *)
C24_OnlyIndexedDead ==
    /\ [](Executing =>
             /\ "VMA" \notin DOMAIN mode_immediate8
             /\ "VMA" \notin DOMAIN mode_direct
             /\ "VMA" \notin DOMAIN mode_ext
             /\ cycle \in {1, 2} => Get(mode_indexed, "VMA", 1) = 0)
    /\ [][ (Executing /\ IsAlu /\ cycle = 2) =>
              IF mode = INDEXED THEN VMA = 0 /\ VMA' = 0
              ELSE VMA = 1 /\ VMA' = 1 ]_vars

\* LDA extended in its last cycle, both address bytes read, VMA = 1
C24_Witness ==
    /\ Executing /\ Decode[instr] = "LDA" /\ mode = EXTENDED
    /\ cycle = 3 /\ VMA = 1 /\ Len(formalData.reads) = 2

\* the length in bytes of the instruction in instr
C25_Length ==
    LET h == Decode[instr]
    IN  CASE h \in {"NOP", "TAP", "TPA", "IN_DE_X", "CL_SE_V", "CL_SE_C",
                    "CL_SE_I", "Default"} -> 1
          [] h \in Alu2Family /\ mode \in {MODE_A, MODE_B} -> 1
          [] h = "BR" -> 2
          [] mode = EXTENDED -> 3
          [] OTHER -> 2

\* a branch that was taken has completed
C25_TakenBranch == Decode[instr] = "BR" /\ C15_Taken(formalData.pre_ccs)

(* C25: after an instruction fetched at P that is neither a JMP nor a      *)
(* taken branch, pc = (P + L) mod 2^16, with L = 1 for NOP, TAP, TPA, INX, *)
(* DEX, the flag instructions, read-modify-write instructions on A or B    *)
(* and unmatched opcodes, L = 2 for immediate, direct and indexed mode and *)
(* for branches not taken, and L = 3 for extended mode.                    *)
C25_PcAdvance ==
    (InstrDone /\ Decode[instr] # "JMP" /\ ~C25_TakenBranch) =>
        pc = (FetchedAt + C25_Length) % 65536

\* CLR extended (0x7F) fetched at 0xFFFF has left pc = 0x0002
C25_Witness ==
    /\ InstrDone /\ instr = 127
    /\ FetchedAt = 65535 /\ pc = 2

\* the address of the operand of an ALU-family instruction in a memory mode,
\* from the bytes read after the opcode
C26_OperandAddr ==
    CASE mode = DIRECT -> ReadData(1)
      [] mode = EXTENDED -> ReadData(1) * 256 + ReadData(2)
      [] mode = INDEXED -> (x + ReadData(1)) % 65536

(* C26: in the final cycle of an ALU-family instruction fetched at P, ALU  *)
(* input 1 is B when bit 6 of the opcode is 1 and A otherwise, and ALU     *)
(* input 2 is the operand: in immediate mode the byte read at P + 1; in    *)
(* the other modes the byte on Din while the core reads the address made   *)
(* of the bytes after the opcode (zero-extended byte at P + 1 in direct    *)
(* mode, byte at P + 1 high and byte at P + 2 low in extended mode, X plus *)
(* the byte at P + 1 modulo 2^16 in indexed mode).                         *)
C26_AluInputs ==
    (Executing /\ IsAlu /\ end_instr_flag) =>
        /\ src8_1 = (IF Bit(instr, 6) = 1 THEN b ELSE a)
        /\ Len(formalData.reads) = (IF mode = EXTENDED THEN 2 ELSE 1)
        /\ ReadAddr(1) = (FetchedAt + 1) % 65536
        /\ mode = EXTENDED => ReadAddr(2) = (FetchedAt + 2) % 65536
        /\ IF mode = IMMEDIATE THEN src8_2 = ReadData(1)
           ELSE /\ src8_2 = Din
                /\ Addr = C26_OperandAddr /\ RW = 1 /\ VMA = 1

\* LDAB indexed (0xE6) in its last cycle, reading past the end of memory
\* with X = 0xFFFF and offset 0xFF
C26_Witness ==
    /\ Executing /\ instr = 230 /\ end_instr_flag
    /\ x = 65535 /\ ReadData(1) = 255 /\ Addr = 254
    /\ src8_1 = b /\ a # b

\* the ALU-family instructions that do not write the result back
C27_NoWriteBack == Decode[instr] \in {"CMP", "BIT"}

\* the results the ALU can deliver in this cycle
C27_AluOut == { r.out : r \in ALU8(alu8_func, src8_1, src8_2, ccs) }

(* C27: an ALU-family instruction changes an accumulator only on its final *)
(* clock edge, and then only if it is not CMP or BIT: the accumulator that *)
(* bit 6 of the opcode selects takes the ALU result and the other keeps    *)
(* its value.  No edge of the instruction changes X or SP, RW is read in   *)
(* every one of its cycles and it reports no write.                        *)
C27_WriteBack ==
    /\ [][ (Executing /\ IsAlu) =>
              /\ x' = x /\ sp' = sp /\ RW = 1 /\ RW' = 1
              /\ IF end_instr_flag /\ ~C27_NoWriteBack
                 THEN IF Bit(instr, 6) = 1
                      THEN b' \in C27_AluOut /\ a' = a
                      ELSE a' \in C27_AluOut /\ b' = b
                 ELSE a' = a /\ b' = b ]_vars
    /\ []((InstrDone /\ IsAlu) =>
              /\ formalData.writes = << >>
              /\ x = formalData.pre_x /\ sp = formalData.pre_sp
              /\ C27_NoWriteBack =>
                    (a = formalData.pre_a /\ b = formalData.pre_b)
              /\ (~C27_NoWriteBack /\ Bit(instr, 6) = 1) => a = formalData.pre_a
              /\ (~C27_NoWriteBack /\ Bit(instr, 6) = 0) => b = formalData.pre_b)

\* LDAB immediate (0xC6) has loaded a new value into B and left A alone
C27_Witness ==
    /\ InstrDone /\ instr = 198
    /\ b = ReadData(1) /\ b # formalData.pre_b
    /\ a = formalData.pre_a /\ a # b

(* C28: in every fetch cycle (reset_state = 3, cycle = 0) the address bus  *)
(* carries pc, RW is read and VMA is 1, whatever instruction came before.  *)
C28_FetchBus ==
    (reset_state = 3 /\ cycle = 0) => (Addr = pc /\ RW = 1 /\ VMA = 1)

\* the fetch cycle that follows STAA indexed (0xA7), whose last two cycles
\* were a dead cycle and a write cycle
C28_Witness ==
    /\ InstrDone /\ instr = 167 /\ Len(formalData.writes) = 1
    /\ Addr = pc /\ Addr # WriteAddr(1) /\ RW = 1 /\ VMA = 1

(* C29: the instruction latch takes Din on the clock edge that ends a      *)
(* fetch cycle (reset_state = 3, cycle = 0) and keeps its value on every   *)
(* other edge, so neither the handler the opcode dispatches to nor the     *)
(* mode field changes while an instruction executes.                       *)
C29_InstrLatch ==
    [][ /\ IF reset_state = 3 /\ cycle = 0
           THEN instr' = Din
           ELSE instr' = instr
        /\ Executing => (Decode[instr'] = Decode[instr] /\ mode' = mode) ]_vars

\* cycle 3 of LDAA extended (0xB6): the data bus carries another byte than
\* the opcode, the latch holds the opcode
C29_Witness ==
    /\ Executing /\ cycle = 3 /\ instr = 182
    /\ Din # instr /\ formalData.instr = instr

\* a store, or a read-modify-write instruction on memory
C30_MemoryWriter == IsSta \/ (IsAlu2 /\ mode \in {INDEXED, EXTENDED})

(* C30: RW is write only in the final cycle of a store or of a             *)
(* read-modify-write instruction on memory, hence never during reset, in   *)
(* a fetch cycle or in another instruction, and never in two cycles in a   *)
(* row.                                                                    *)
C30_WriteOnlyAtEnd ==
    /\ [](RW = 0 => (Executing /\ end_instr_flag /\ C30_MemoryWriter))
    /\ [][RW = 0 => RW' = 1]_vars

\* the write cycle of COM extended (0x73)
C30_Witness ==
    /\ Executing /\ instr = 115 /\ cycle = 5
    /\ RW = 0 /\ VMA = 1 /\ end_instr_flag

\* the one cycle in which the instruction in instr selects an ALU function:
\* its last cycle, or for a read-modify-write instruction on memory the
\* cycle in which the byte read is on Din
C31_FuncCycle ==
    IF IsAlu2 /\ mode \in {INDEXED, EXTENDED}
    THEN C18_Alu2End - 2
    ELSE C6_EndCycle(instr)

(* C31: the ALU function selector is NONE in every reset cycle and in      *)
(* every fetch cycle.  While an instruction executes it differs from NONE  *)
(* in one cycle number at most, and the cycle counter steps by one on      *)
(* every edge until the edge that ends the instruction, so no instruction  *)
(* selects a function in two cycles; the flags change only on an edge      *)
(* whose cycle selected a function, hence at most once per instruction.    *)
C31_OneAluCycle ==
    /\ []((reset_state # 3 \/ cycle = 0) => alu8_func = "NONE")
    /\ []((Executing /\ alu8_func # "NONE") => cycle = C31_FuncCycle)
    /\ [][ Executing =>
              \/ cycle' = cycle + 1
              \/ end_instr_flag /\ cycle' = 0 ]_vars
    /\ [][ alu8_func = "NONE" => ccs' = ccs ]_vars

\* COM indexed (0x63) in cycle 4: the function is selected two cycles before
\* the instruction ends
C31_Witness ==
    /\ Executing /\ instr = 99 /\ cycle = 4
    /\ alu8_func # "NONE" /\ ~end_instr_flag

====
